---- MODULE Spec2Model ----
(***************************************************************************)
(* Model of crates/generated/src/lib.rs: the ItemStack value type and the  *)
(* Inventory handle over a shared backing of independently locked slots.   *)
(*                                                                         *)
(* An Option<T> is modelled as a set with at most one element: None is {}  *)
(* and Some(v) is {v}.                                                     *)
(***************************************************************************)
EXTENDS Integers, Sequences, FiniteSets, TLC

(***************************************************************************)
(* Bounds of the model.                                                    *)
(***************************************************************************)
\* The model's stand-in for u32::MAX: a u32 is a number of 0..MaxU32, and
\* arithmetic that leaves the range wraps modulo MaxU32 + 1.
MaxU32 == 3
\* Threads of execution that use the inventory.
NumThreads == 2
\* Handles that can exist (the first is made by construction).
MaxHandles == 2
\* Backings that can be constructed.
MaxBackings == 2
\* Guards one thread keeps alive at once.
MaxHeld == 2
\* Largest slot index a caller passes to Inventory::item.
MaxIndex == 2

U32_MAX == MaxU32
U32 == 0..U32_MAX

None == {}
Some(v) == {v}
IsSome(o) == o # {}
Unwrap(o) == CHOOSE v \in o : TRUE

(***************************************************************************)
(* The catalog (generated code): items and their static durability.       *)
(***************************************************************************)
Items == {"Stone", "WoodenSword"}

\* Item::durability(): Some(durability) for a damageable item, None otherwise.
durability(item) == IF item = "WoodenSword" THEN Some(2) ELSE None

(***************************************************************************)
(* ItemStack                                                               *)
(***************************************************************************)
ItemStack == [item : Items, count : U32, damage : {None} \cup {Some(d) : d \in U32}]

\* ItemStack::new
new(item, count) == [item |-> item, count |-> count, damage |-> None]

\* u32::checked_sub
checked_sub(a, b) == IF b > a THEN None ELSE Some(a - b)

\* `a += b` on u32. With overflow checks (debug builds) an overflowing addition
\* panics; without them (release builds) it wraps.
Overflows(a, b) == a + b > U32_MAX
wrapping_add(a, b) == (a + b) % (U32_MAX + 1)

VARIABLES
    stack,          \* the ItemStack under test
    hist,           \* the last two calls on it, oldest first
    overflowChecks, \* whether the build panics on arithmetic overflow
    panicked,       \* a call has panicked
    hback,          \* handle -> the backing its Arc points to (NoBacking: no such handle)
    origin,         \* handle -> the construction it derives from (history)
    nback,          \* number of backings constructed so far
    content,        \* backing -> flat slot index -> Option<ItemStack>
    locked,         \* backing -> flat slot index -> state of the slot's Mutex
    pc,             \* thread -> "idle", or "locking" inside Mutex::lock
    req,            \* thread -> the slot its pending Inventory::item call locks
    held,           \* thread -> the guards it keeps alive
    absent,         \* thread -> its last Inventory::item call returned None
    eqRet,          \* result of the last Inventory::ptr_eq call
    lastWrite,      \* the guard of the last write through a guard (history)
    left,           \* backing -> flat slot index -> what the stores through guards left (history)
    rc,             \* backing -> strong count of its Arc
    freed           \* the backings that have been torn down

stackVars == <<stack, hist, overflowChecks, panicked>>

\* One call in the history: the method, its arguments, the stack before and
\* after, and what it returned (retU for a u32, retB for a bool).
Call(op, arg, itemArg, pre, post, retU, retB, panic) ==
    [op |-> op, arg |-> arg, itemArg |-> itemArg, pre |-> pre, post |-> post,
     retU |-> retU, retB |-> retB, panic |-> panic]

Record(c) ==
    hist' = IF Len(hist) < 2 THEN Append(hist, c) ELSE Append(Tail(hist), c)

\* ItemStack::add
addPostAssign(s, c) == [s EXCEPT !.count = c]

addPost(s, c) == [s EXCEPT !.count = wrapping_add(s.count, c)]

add(c) ==
    /\ ~panicked
    /\ IF Overflows(stack.count, c) /\ overflowChecks
       THEN /\ panicked' = TRUE
            /\ stack' = stack
            /\ Record(Call("add", c, stack.item, stack, stack, 0, FALSE, TRUE))
       ELSE /\ stack' = addPost(stack, c)
            /\ panicked' = panicked
            /\ Record(Call("add", c, stack.item, stack, stack', stack'.count, FALSE, FALSE))
    /\ UNCHANGED overflowChecks

\* ItemStack::remove
removeOk(s, c) == IsSome(checked_sub(s.count, c))
removePostSaturating(s, c) ==
    IF removeOk(s, c) THEN [s EXCEPT !.count = Unwrap(checked_sub(s.count, c))]
    ELSE [s EXCEPT !.count = 0]

removePost(s, c) ==
    IF removeOk(s, c) THEN [s EXCEPT !.count = Unwrap(checked_sub(s.count, c))] ELSE s

remove(c) ==
    /\ ~panicked
    /\ stack' = removePost(stack, c)
    /\ Record(Call("remove", c, stack.item, stack, stack', 0, removeOk(stack, c), FALSE))
    /\ UNCHANGED <<overflowChecks, panicked>>

\* ItemStack::set_item
set_item(i) ==
    /\ ~panicked
    /\ stack' = [stack EXCEPT !.item = i]
    /\ Record(Call("set_item", 0, i, stack, stack', 0, FALSE, FALSE))
    /\ UNCHANGED <<overflowChecks, panicked>>

\* ItemStack::set_count
set_count(c) ==
    /\ ~panicked
    /\ stack' = [stack EXCEPT !.count = c]
    /\ Record(Call("set_count", c, stack.item, stack, stack', 0, FALSE, FALSE))
    /\ UNCHANGED <<overflowChecks, panicked>>

\* ItemStack::damage
damagePostTracks(s, amount) ==
    IF IsSome(s.damage)
    THEN [s EXCEPT !.damage = Some(wrapping_add(Unwrap(s.damage), amount))]
    ELSE [s EXCEPT !.damage = Some(amount)]

damagePostBreaks(s, amount) ==
    IF IsSome(s.damage)
    THEN LET d == wrapping_add(Unwrap(s.damage), amount)
         IN IF \E dur \in durability(s.item) : d >= dur
            THEN [s EXCEPT !.damage = Some(d), !.count = 0]
            ELSE [s EXCEPT !.damage = Some(d)]
    ELSE s

damagePost(s, amount) ==
    IF IsSome(s.damage)
    THEN [s EXCEPT !.damage = Some(wrapping_add(Unwrap(s.damage), amount))]
    ELSE s

damageRet(s, amount) ==
    IF IsSome(s.damage)
    THEN IF IsSome(durability(s.item))
         THEN Unwrap(damagePost(s, amount).damage) >= Unwrap(durability(s.item))
         ELSE FALSE
    ELSE FALSE

damage(amount) ==
    /\ ~panicked
    /\ IF IsSome(stack.damage) /\ Overflows(Unwrap(stack.damage), amount) /\ overflowChecks
       THEN /\ panicked' = TRUE
            /\ stack' = stack
            /\ Record(Call("damage", amount, stack.item, stack, stack, 0, FALSE, TRUE))
       ELSE /\ stack' = damagePost(stack, amount)
            /\ panicked' = panicked
            /\ Record(Call("damage", amount, stack.item, stack, stack', 0,
                           damageRet(stack, amount), FALSE))
    /\ UNCHANGED overflowChecks

\* A call of method op on the stack s, as a record of the history. The methods
\* that take no item carry the stack's own item as itemArg.
MethodCall(s, op, arg, itemArg) ==
    CASE op = "add" ->
           IF Overflows(s.count, arg) /\ overflowChecks
           THEN Call(op, arg, s.item, s, s, 0, FALSE, TRUE)
           ELSE Call(op, arg, s.item, s, addPost(s, arg), addPost(s, arg).count, FALSE, FALSE)
      [] op = "remove" ->
           Call(op, arg, s.item, s, removePost(s, arg), 0, removeOk(s, arg), FALSE)
      [] op = "set_item" ->
           Call(op, 0, itemArg, s, [s EXCEPT !.item = itemArg], 0, FALSE, FALSE)
      [] op = "set_count" ->
           Call(op, arg, s.item, s, [s EXCEPT !.count = arg], 0, FALSE, FALSE)
      [] op = "damage" ->
           IF IsSome(s.damage) /\ Overflows(Unwrap(s.damage), arg) /\ overflowChecks
           THEN Call(op, arg, s.item, s, s, 0, FALSE, TRUE)
           ELSE Call(op, arg, s.item, s, damagePost(s, arg), 0, damageRet(s, arg), FALSE)

Methods == {"add", "remove", "set_item", "set_count", "damage"}

(***************************************************************************)
(* InventoryBacking (generated code): the layout of areas over one flat    *)
(* array of slots.                                                         *)
(***************************************************************************)
Areas == {"Storage", "Hotbar", "Helmet"}

\* The areas this inventory defines, in flat-array order, with their slot counts.
\* "Helmet" is an area that this inventory does not define.
Layout == <<[area |-> "Storage", len |-> 2], [area |-> "Hotbar", len |-> 1]>>

RECURSIVE Offset(_)
Offset(n) == IF n = 1 THEN 0 ELSE Offset(n - 1) + Layout[n - 1].len

NumSlots == Offset(Len(Layout) + 1)
FlatSlots == 0..(NumSlots - 1)

\* InventoryBacking::area_slice: the sub-range of the flat array that belongs to
\* the area, or None when the inventory does not define the area.
area_slice(area) ==
    IF \E n \in 1..Len(Layout) : Layout[n].area = area
    THEN LET n == CHOOSE n \in 1..Len(Layout) : Layout[n].area = area
         IN Some([off |-> Offset(n), len |-> Layout[n].len])
    ELSE None

(***************************************************************************)
(* Inventory                                                               *)
(***************************************************************************)
Threads == 1..NumThreads
Handles == 1..MaxHandles
Backings == 1..MaxBackings
Indexes == 0..MaxIndex
NoBacking == 0
\* A pending lock, and later the guard: the slot (backing b, flat index k), and as
\* history the call that asked for it (handle h of construction o, area a, index i).
Guard(b, k, h, o, a, i) == [b |-> b, k |-> k, h |-> h, o |-> o, a |-> a, i |-> i]
NoReq == Guard(0, 0, 0, 0, "", 0)

\* What a caller stores into a slot through its guard.
SlotValues == {None, Some(new("Stone", 1))}

invVars == <<hback, origin, nback, content, locked, pc, req, held, absent, eqRet,
             lastWrite, left, rc, freed>>
vars == <<stack, hist, overflowChecks, panicked,
          hback, origin, nback, content, locked, pc, req, held, absent, eqRet,
          lastWrite, left, rc, freed>>

Live(h) == hback[h] # NoBacking
FreeHandles == {h \in Handles : ~Live(h)}
NextHandle == CHOOSE h \in FreeHandles : \A g \in FreeHandles : h <= g

SliceGetInclusive(slice, idx) == IF idx <= slice.len THEN Some(slice.off + idx) ELSE None

SliceGetNoOffset(slice, idx) == IF idx < slice.len THEN Some(idx) ELSE None

\* slice.get(slot): the bounds check of the index against the area's slice.
SliceGet(slice, idx) == IF idx < slice.len THEN Some(slice.off + idx) ELSE None

\* The flat slot that Inventory::item(area, idx) resolves to, if any.
Resolve(area, idx) ==
    LET slice == area_slice(area)
    IN IF slice = None THEN None ELSE SliceGet(Unwrap(slice), idx)

CanLockAlways(b, k) == TRUE

CanLockWholeBacking(b, k) == \A k2 \in FlatSlots : ~locked[b][k2]

\* Mutex::lock returns only once the slot's mutex is free.
CanLock(b, k) == ~locked[b][k]

\* Inventory::item, up to the call of Mutex::lock: absence is returned at once,
\* otherwise the thread enters Mutex::lock of the slot.
ItemCall(t, h, area, idx) ==
    /\ pc[t] = "idle"
    /\ Live(h)
    /\ LET k == Resolve(area, idx)
       IN IF k = None
          THEN /\ absent' = [absent EXCEPT ![t] = TRUE]
               /\ UNCHANGED <<pc, req>>
          ELSE /\ Cardinality(held[t]) < MaxHeld
               /\ pc' = [pc EXCEPT ![t] = "locking"]
               /\ req' = [req EXCEPT ![t] = Guard(hback[h], Unwrap(k), h, origin[h], area, idx)]
               /\ absent' = [absent EXCEPT ![t] = FALSE]
    /\ UNCHANGED <<hback, origin, nback, content, locked, held, eqRet>>

\* Inventory::item, the return of Mutex::lock with the guard.
Acquire(t) ==
    /\ pc[t] = "locking"
    /\ CanLock(req[t].b, req[t].k)
    /\ locked' = [locked EXCEPT ![req[t].b][req[t].k] = TRUE]
    /\ held' = [held EXCEPT ![t] = @ \cup {req[t]}]
    /\ pc' = [pc EXCEPT ![t] = "idle"]
    /\ req' = [req EXCEPT ![t] = NoReq]
    /\ UNCHANGED <<hback, origin, nback, content, absent, eqRet>>

LockOrTimeout(t) ==
    \/ Acquire(t)
    \/ /\ pc[t] = "locking"
       /\ ~CanLock(req[t].b, req[t].k)
       /\ pc' = [pc EXCEPT ![t] = "idle"]
       /\ req' = [req EXCEPT ![t] = NoReq]
       /\ absent' = [absent EXCEPT ![t] = TRUE]
       /\ UNCHANGED <<hback, origin, nback, content, locked, held, eqRet>>

LockReentrant(t) ==
    \/ Acquire(t)
    \/ /\ pc[t] = "locking"
       /\ \E g \in held[t] : g.b = req[t].b /\ g.k = req[t].k
       /\ held' = [held EXCEPT ![t] = @ \cup {req[t]}]
       /\ pc' = [pc EXCEPT ![t] = "idle"]
       /\ req' = [req EXCEPT ![t] = NoReq]
       /\ UNCHANGED <<hback, origin, nback, content, locked, absent, eqRet>>

Lock(t) == Acquire(t)

WriteToCopy(t, g, v) ==
    /\ pc[t] = "idle"
    /\ g \in held[t]
    /\ UNCHANGED <<hback, origin, nback, content, locked, pc, req, held, absent, eqRet>>

\* `*guard = v`: replacing the slot's content through the guard.
Write(t, g, v) ==
    /\ pc[t] = "idle"
    /\ g \in held[t]
    /\ content' = [content EXCEPT ![g.b][g.k] = v]
    /\ UNCHANGED <<hback, origin, nback, locked, pc, req, held, absent, eqRet>>

\* A method call on the stack in the slot, through the guard. The methods work
\* on the ItemStack inside the slot's Option, so the slot stays occupied. A call
\* that panics changes nothing, and the unwinding thread drops its guards.
StackCall(t, g, op, arg, itemArg) ==
    /\ ~panicked
    /\ pc[t] = "idle"
    /\ g \in held[t]
    /\ IsSome(content[g.b][g.k])
    /\ LET c == MethodCall(Unwrap(content[g.b][g.k]), op, arg, itemArg)
       IN IF c.panic
          THEN /\ panicked' = TRUE
               /\ locked' = [b \in Backings |-> [k \in FlatSlots |->
                                locked[b][k] /\ \A x \in held[t] : x.b # b \/ x.k # k]]
               /\ held' = [held EXCEPT ![t] = {}]
               /\ UNCHANGED content
          ELSE /\ content' = [content EXCEPT ![g.b][g.k] = Some(c.post)]
               /\ UNCHANGED <<panicked, locked, held>>
    /\ UNCHANGED <<hback, origin, nback, pc, req, absent, eqRet>>

UnlockKeepsLocked(b, k) == locked

\* Dropping the guard unlocks the slot's mutex.
Unlock(b, k) == [locked EXCEPT ![b][k] = FALSE]

Release(t, g) ==
    /\ pc[t] = "idle"
    /\ g \in held[t]
    /\ locked' = Unlock(g.b, g.k)
    /\ held' = [held EXCEPT ![t] = @ \ {g}]
    /\ UNCHANGED <<hback, origin, nback, content, pc, req, absent, eqRet>>

NewHandleDeepCopy(h) ==
    /\ Live(h)
    /\ FreeHandles # {}
    /\ nback < MaxBackings
    /\ nback' = nback + 1
    /\ hback' = [hback EXCEPT ![NextHandle] = nback + 1]
    /\ origin' = [origin EXCEPT ![NextHandle] = origin[h]]
    /\ content' = [content EXCEPT ![nback + 1] = content[hback[h]]]
    /\ rc' = [rc EXCEPT ![nback + 1] = 1]
    /\ UNCHANGED <<locked, pc, req, held, absent, eqRet>>

\* Inventory::new_handle (and clone): another Arc to the same backing.
NewHandle(h) ==
    /\ Live(h)
    /\ FreeHandles # {}
    /\ hback' = [hback EXCEPT ![NextHandle] = hback[h]]
    /\ origin' = [origin EXCEPT ![NextHandle] = origin[h]]
    /\ rc' = [rc EXCEPT ![hback[h]] = @ + 1]
    /\ UNCHANGED <<nback, content, locked, pc, req, held, absent, eqRet>>

\* Construction of a separate inventory: a fresh backing of empty, unlocked slots.
NewInventory ==
    /\ nback < MaxBackings
    /\ FreeHandles # {}
    /\ nback' = nback + 1
    /\ hback' = [hback EXCEPT ![NextHandle] = nback + 1]
    /\ origin' = [origin EXCEPT ![NextHandle] = nback + 1]
    /\ rc' = [rc EXCEPT ![nback + 1] = 1]
    /\ UNCHANGED <<content, locked, pc, req, held, absent, eqRet>>

\* The handles whose Arc points to backing b.
HandlesOf(b) == {h \in Handles : hback[h] = b}

\* A guard borrows the handle it was obtained through, and so does a call in
\* progress: the handle cannot be dropped before them.
Borrowed(h) ==
    \E t \in Threads :
      \/ \E g \in held[t] : g.h = h
      \/ pc[t] = "locking" /\ req[t].h = h

DropHandleTearsDown(h) ==
    /\ Live(h)
    /\ ~Borrowed(h)
    /\ hback' = [hback EXCEPT ![h] = NoBacking]
    /\ origin' = [origin EXCEPT ![h] = NoBacking]
    /\ rc' = [rc EXCEPT ![hback[h]] = @ - 1]
    /\ freed' = freed \cup {hback[h]}
    /\ content' = [content EXCEPT ![hback[h]] = [k \in FlatSlots |-> None]]
    /\ UNCHANGED <<nback, locked, pc, req, held, absent, eqRet>>

\* Dropping an Inventory drops its Arc: the strong count goes down by one, and
\* the drop that takes it to zero tears the backing down with its slots.
DropHandle(h) ==
    /\ Live(h)
    /\ ~Borrowed(h)
    /\ hback' = [hback EXCEPT ![h] = NoBacking]
    /\ origin' = [origin EXCEPT ![h] = NoBacking]
    /\ rc' = [rc EXCEPT ![hback[h]] = @ - 1]
    /\ IF rc[hback[h]] = 1
       THEN /\ freed' = freed \cup {hback[h]}
            /\ content' = [content EXCEPT ![hback[h]] = [k \in FlatSlots |-> None]]
       ELSE UNCHANGED <<freed, content>>
    /\ UNCHANGED <<nback, locked, pc, req, held, absent, eqRet>>

ptr_eqStructural(h1, h2) == content[hback[h1]] = content[hback[h2]]

\* Inventory::ptr_eq
ptr_eq(h1, h2) == hback[h1] = hback[h2]

PtrEqCall(t, h1, h2) ==
    /\ pc[t] = "idle"
    /\ Live(h1) /\ Live(h2)
    /\ eqRet' = IF ptr_eq(h1, h2) THEN "true" ELSE "false"
    /\ UNCHANGED <<hback, origin, nback, content, locked, pc, req, held, absent>>

(***************************************************************************)
(* Specifications                                                          *)
(***************************************************************************)
EmptySlots == [b \in Backings |-> [k \in FlatSlots |-> None]]

InvInit ==
    /\ hback = [h \in Handles |-> IF h = 1 THEN 1 ELSE NoBacking]
    /\ origin = [h \in Handles |-> IF h = 1 THEN 1 ELSE NoBacking]
    /\ nback = 1
    /\ content = EmptySlots
    /\ locked = [b \in Backings |-> [k \in FlatSlots |-> FALSE]]
    /\ pc = [t \in Threads |-> "idle"]
    /\ req = [t \in Threads |-> NoReq]
    /\ held = [t \in Threads |-> {}]
    /\ absent = [t \in Threads |-> FALSE]
    /\ eqRet = "init"
    /\ lastWrite = NoReq
    /\ left = EmptySlots
    /\ rc = [b \in Backings |-> IF b = 1 THEN 1 ELSE 0]
    /\ freed = {}

StackIdle ==
    /\ stack = new("Stone", 0)
    /\ hist = <<>>
    /\ overflowChecks = FALSE
    /\ panicked = FALSE

\* Spec: threads sharing one inventory, each thread through a handle of its own.
HandleOf(t) == IF t \in Handles THEN t ELSE 1

Init == InvInit /\ StackIdle

Next ==
    \/ \E t \in Threads, a \in Areas, i \in Indexes :
          ItemCall(t, HandleOf(t), a, i) /\ UNCHANGED <<stackVars, lastWrite, left, rc, freed>>
    \/ \E t \in Threads : Lock(t) /\ UNCHANGED <<stackVars, lastWrite, left, rc, freed>>
    \/ \E t \in Threads : \E g \in held[t], v \in SlotValues :
          Write(t, g, v) /\ UNCHANGED <<stackVars, lastWrite, left, rc, freed>>
    \/ \E t \in Threads : \E g \in held[t] : Release(t, g) /\ UNCHANGED <<stackVars, lastWrite, left, rc, freed>>
    \/ \E h \in Handles : NewHandle(h) /\ UNCHANGED <<stackVars, lastWrite, left, freed>>

Spec == Init /\ [][Next]_vars

\* FairSpec: Spec with the fairness of the slots' mutexes. A parking_lot mutex is
\* eventually fair: a thread waiting in Mutex::lock is not passed over for ever
\* by threads that lock the mutex again and again.
FairSpec == Spec /\ \A t \in Threads : SF_vars(Lock(t) /\ UNCHANGED <<stackVars, lastWrite, left, rc, freed>>)

\* StackSpec: one ItemStack and the calls of its methods.
StackInit ==
    /\ stack \in ItemStack
    /\ hist = <<>>
    /\ overflowChecks \in BOOLEAN
    /\ panicked = FALSE
    /\ InvInit

StackNext ==
    \/ \E c \in U32 : add(c) /\ UNCHANGED invVars
    \/ \E c \in U32 : remove(c) /\ UNCHANGED invVars
    \/ \E i \in Items : set_item(i) /\ UNCHANGED invVars
    \/ \E c \in U32 : set_count(c) /\ UNCHANGED invVars
    \/ \E a \in U32 : damage(a) /\ UNCHANGED invVars

StackSpec == StackInit /\ [][StackNext]_vars

\* HandleSpec: one thread working through the handles of several inventories,
\* with one guard alive at a time, as the note on Inventory::item asks.
HandleNext ==
    \/ \E h \in Handles, a \in Areas, i \in Indexes :
          held[1] = {} /\ ItemCall(1, h, a, i) /\ UNCHANGED <<stackVars, lastWrite, left, rc, freed>>
    \/ Lock(1) /\ UNCHANGED <<stackVars, lastWrite, left, rc, freed>>
    \/ \E g \in held[1], v \in SlotValues :
          Write(1, g, v) /\ lastWrite' = g /\ UNCHANGED <<stackVars, left, rc, freed>>
    \/ \E g \in held[1] : Release(1, g) /\ UNCHANGED <<stackVars, lastWrite, left, rc, freed>>
    \/ \E h \in Handles : NewHandle(h) /\ UNCHANGED <<stackVars, lastWrite, left, freed>>
    \/ NewInventory /\ UNCHANGED <<stackVars, lastWrite, left, freed>>
    \/ \E h1 \in Handles, h2 \in Handles :
          PtrEqCall(1, h1, h2) /\ UNCHANGED <<stackVars, lastWrite, left, rc, freed>>

HandleSpec == Init /\ [][HandleNext]_vars

\* SlotSpec: one thread that works on the stack in the hotbar slot through the
\* slot's guard: it stores stacks, calls their methods and empties the slot.
\* What it stores is a stack made by ItemStack::new, or a stack that tracks damage.
StoredValues == SlotValues \cup {Some([item |-> "WoodenSword", count |-> 1, damage |-> Some(0)])}

SlotInit ==
    /\ InvInit
    /\ stack = new("Stone", 0)
    /\ hist = <<>>
    /\ overflowChecks \in BOOLEAN
    /\ panicked = FALSE

SlotNext ==
    \/ \E i \in Indexes :
          /\ ~panicked /\ held[1] = {}
          /\ ItemCall(1, 1, "Hotbar", i)
          /\ UNCHANGED <<stackVars, lastWrite, left, rc, freed>>
    \/ ~panicked /\ Lock(1) /\ UNCHANGED <<stackVars, lastWrite, left, rc, freed>>
    \/ \E g \in held[1], v \in StoredValues :
          ~panicked /\ Write(1, g, v) /\ UNCHANGED <<stackVars, lastWrite, left, rc, freed>>
    \/ \E g \in held[1], op \in Methods, arg \in U32, i \in Items :
          /\ StackCall(1, g, op, arg, i)
          /\ UNCHANGED <<stack, hist, overflowChecks, lastWrite, left, rc, freed>>
    \/ \E g \in held[1] :
          ~panicked /\ Release(1, g) /\ UNCHANGED <<stackVars, lastWrite, left, rc, freed>>

SlotSpec == SlotInit /\ [][SlotNext]_vars

\* OrderSpec: Spec with the history of the stores: the guard of the last store,
\* and for each slot the value that the stores through its guards have left.
OrderNext ==
    \/ \E t \in Threads, a \in Areas, i \in Indexes :
          ItemCall(t, HandleOf(t), a, i) /\ UNCHANGED <<stackVars, lastWrite, left, rc, freed>>
    \/ \E t \in Threads : Lock(t) /\ UNCHANGED <<stackVars, lastWrite, left, rc, freed>>
    \/ \E t \in Threads : \E g \in held[t], v \in SlotValues :
          /\ Write(t, g, v)
          /\ lastWrite' = g
          /\ left' = [left EXCEPT ![g.b][g.k] = v]
          /\ UNCHANGED <<stackVars, rc, freed>>
    \/ \E t \in Threads : \E g \in held[t] :
          Release(t, g) /\ UNCHANGED <<stackVars, lastWrite, left, rc, freed>>
    \/ \E h \in Handles : NewHandle(h) /\ UNCHANGED <<stackVars, lastWrite, left, freed>>

OrderSpec == Init /\ [][OrderNext]_vars

\* LifeSpec: one thread that makes, uses and drops handles of one inventory,
\* with one guard alive at a time.
LifeNext ==
    \/ \E h \in Handles, a \in Areas, i \in Indexes :
          held[1] = {} /\ ItemCall(1, h, a, i) /\ UNCHANGED <<stackVars, lastWrite, left, rc, freed>>
    \/ Lock(1) /\ UNCHANGED <<stackVars, lastWrite, left, rc, freed>>
    \/ \E g \in held[1], v \in SlotValues :
          Write(1, g, v) /\ lastWrite' = g /\ UNCHANGED <<stackVars, left, rc, freed>>
    \/ \E g \in held[1] : Release(1, g) /\ UNCHANGED <<stackVars, lastWrite, left, rc, freed>>
    \/ \E h \in Handles : NewHandle(h) /\ UNCHANGED <<stackVars, lastWrite, left, freed>>
    \/ \E h \in Handles : DropHandle(h) /\ UNCHANGED <<stackVars, lastWrite, left>>

LifeSpec == Init /\ [][LifeNext]_vars

\* NestedSpec: one thread that calls Inventory::item through any handle of the
\* inventory, also while it keeps guards alive.
NestedNext ==
    \/ \E h \in Handles, a \in Areas, i \in Indexes :
          ItemCall(1, h, a, i) /\ UNCHANGED <<stackVars, lastWrite, left, rc, freed>>
    \/ Lock(1) /\ UNCHANGED <<stackVars, lastWrite, left, rc, freed>>
    \/ \E g \in held[1], v \in SlotValues :
          Write(1, g, v) /\ UNCHANGED <<stackVars, lastWrite, left, rc, freed>>
    \/ \E g \in held[1] :
          Release(1, g) /\ UNCHANGED <<stackVars, lastWrite, left, rc, freed>>
    \/ \E h \in Handles : NewHandle(h) /\ UNCHANGED <<stackVars, lastWrite, left, freed>>

NestedSpec == Init /\ [][NestedNext]_vars

(***************************************************************************)
(* Properties of ItemStack (checked under StackSpec)                       *)
(***************************************************************************)
Calls == {hist[n] : n \in 1..Len(hist)}

\* C1: remove is all-or-nothing. A remove(c) with c > count returns false and
\* leaves item, count and damage as they were; a remove(c) with c <= count
\* returns true, makes the count exactly count - c and changes nothing else.
\* The stack after the last call is the one that call left.
C1_RemoveAllOrNothing ==
    /\ \A call \in Calls :
          call.op = "remove" =>
            /\ ~call.panic
            /\ IF call.arg > call.pre.count
               THEN call.retB = FALSE /\ call.post = call.pre
               ELSE /\ call.retB = TRUE
                    /\ call.post.count = call.pre.count - call.arg
                    /\ call.post.item = call.pre.item
                    /\ call.post.damage = call.pre.damage
    /\ hist # <<>> => stack = hist[Len(hist)].post

\* A refused remove followed by a remove of the whole count, which leaves a
\* stack of count 0.
C1_Witness ==
    /\ Len(hist) >= 2
    /\ LET refused == hist[Len(hist) - 1]
           whole == hist[Len(hist)]
       IN /\ refused.op = "remove" /\ refused.arg > refused.pre.count /\ ~refused.retB
          /\ whole.op = "remove" /\ whole.arg = whole.pre.count /\ whole.arg > 0
          /\ whole.retB /\ stack.count = 0

\* C9: add(c1) with count + c1 representable returns count + c1, and a remove(c2)
\* that follows it with c2 <= count + c1 returns true and leaves count + c1 - c2.
C9_AddRemoveRoundTrip ==
    \A n \in 1..(Len(hist) - 1) :
      LET a == hist[n]
          r == hist[n + 1]
          sum == a.pre.count + a.arg
      IN (a.op = "add" /\ r.op = "remove" /\ sum <= U32_MAX /\ r.arg <= sum) =>
           /\ ~a.panic /\ a.retU = sum /\ a.post.count = sum
           /\ r.pre = a.post
           /\ r.retB = TRUE
           /\ r.post.count = sum - r.arg
           /\ (r.arg = a.arg => r.post.count = a.pre.count)

\* add(c) followed by remove(c), c > 0, on a stack that had items: the count is back.
C9_Witness ==
    /\ Len(hist) >= 2
    /\ LET a == hist[Len(hist) - 1]
           r == hist[Len(hist)]
       IN /\ a.op = "add" /\ r.op = "remove" /\ a.arg > 0 /\ r.arg = a.arg
          /\ a.pre.count > 0 /\ a.retU = a.pre.count + a.arg
          /\ r.retB /\ stack.count = a.pre.count

\* C10: damage(amount) on a stack that tracks damage stores old damage + amount
\* and returns true exactly when that is >= the item's durability; on a stack
\* that does not track damage it changes nothing and returns false.
C10_DamageAccumulates ==
    \A call \in Calls :
      call.op = "damage" =>
        IF IsSome(call.pre.damage)
        THEN LET sum == Unwrap(call.pre.damage) + call.arg
             IN /\ ~call.panic
                /\ call.post = [call.pre EXCEPT !.damage = Some(sum)]
                /\ call.retB = (\E d \in durability(call.pre.item) : sum >= d)
        ELSE call.post = call.pre /\ call.retB = FALSE /\ ~call.panic

\* C11: damage is monotone on a damageable item. No damage call on it panics;
\* damage(1) returns false while the accumulated damage stays below the
\* durability; a damage call that brings the accumulated amount to the
\* durability returns true; and once a damage call has returned true, the next
\* damage call on the same item returns true as well.
C11_DamageMonotone ==
    /\ \A call \in Calls :
          (call.op = "damage" /\ IsSome(durability(call.pre.item))) =>
            /\ ~call.panic
            /\ \A d \in call.pre.damage :
                  (call.arg = 1 /\ d + 1 < Unwrap(durability(call.pre.item))) => ~call.retB
    /\ \A n \in 1..(Len(hist) - 1) :
          LET first == hist[n]
              later == hist[n + 1]
          IN (/\ first.op = "damage" /\ later.op = "damage"
              /\ IsSome(durability(first.pre.item))) =>
               /\ first.retB => later.retB
               /\ first.arg + later.arg >= Unwrap(durability(first.pre.item)) => later.retB

\* C12: on a stack whose item has no durability, damage(amount) returns false
\* and leaves item, count and the damage field as they were.
C12_NonDamageableUntouched ==
    \A call \in Calls :
      (call.op = "damage" /\ durability(call.pre.item) = None) =>
        /\ ~call.panic
        /\ call.retB = FALSE
        /\ call.post = call.pre

\* C13: add(c) never stores a wrapped count. When count + c is above the largest
\* u32 the call fails and stores nothing; otherwise it stores and returns
\* exactly count + c.
C13_AddNeverWraps ==
    \A call \in Calls :
      call.op = "add" =>
        LET sum == call.pre.count + call.arg
        IN IF sum > U32_MAX
           THEN call.panic /\ call.post = call.pre
           ELSE /\ ~call.panic
                /\ call.retU = sum
                /\ call.post = [call.pre EXCEPT !.count = sum]

GuardsOn(b, k) ==
    UNION {{<<t, g>> : g \in {x \in held[t] : x.b = b /\ x.k = k}} : t \in Threads}

\* Thread t is inside Mutex::lock of slot k of backing b.
Waits(t, b, k) == pc[t] = "locking" /\ req[t].b = b /\ req[t].k = k

\* The claim's words: the area is defined on the inventory and the index is
\* below the area's slot count.
ValidIndex(area, idx) ==
    \E n \in 1..Len(Layout) : Layout[n].area = area /\ idx < Layout[n].len

\* The flat slots of an area.
AreaSlots(area) ==
    UNION {Offset(n)..(Offset(n) + Layout[n].len - 1) :
             n \in {m \in 1..Len(Layout) : Layout[m].area = area}}

\* C2: per-slot mutual exclusion. At most one guard is alive for a slot, over
\* all threads and handles; the slot's mutex is locked exactly while that guard
\* is alive; and a slot's content changes only in a step of the thread that
\* holds its guard before and after the step.
C2_SlotMutualExclusion ==
    /\ [](\A b \in Backings, k \in FlatSlots :
            /\ Cardinality(GuardsOn(b, k)) <= 1
            /\ locked[b][k] <=> GuardsOn(b, k) # {})
    /\ [][\A b \in Backings, k \in FlatSlots :
            content'[b][k] # content[b][k] =>
              \E t \in Threads : \E g \in held[t] :
                /\ g.b = b /\ g.k = k /\ g \in held'[t]
                /\ \A u \in Threads \ {t} : pc'[u] = pc[u] /\ held'[u] = held[u]]_vars

\* A thread holds the guard of a slot that it has written, while another thread
\* is inside Inventory::item for the same slot through another handle.
C2_Witness ==
    \E t \in Threads, u \in Threads :
      /\ t # u
      /\ \E g \in held[t] :
           /\ Waits(u, g.b, g.k) /\ req[u].h # g.h
           /\ content[g.b][g.k] # None

\* C3: Inventory::item(area, index) with an undefined area or an index at or
\* beyond the area's slot count returns None at once: the caller does not enter
\* Mutex::lock, and no slot content, lock or guard changes. With a valid index
\* the caller enters Mutex::lock of a slot of that area of the handle's backing,
\* and the call returns only with the guard of that slot.
C3_ItemBounds ==
    /\ [][\A t \in Threads :
            (pc[t] = "idle" /\ (pc'[t] # pc[t] \/ absent'[t] # absent[t])) =>
              \A h \in Handles, a \in Areas, i \in Indexes :
                ItemCall(t, h, a, i) =>
                  IF ValidIndex(a, i)
                  THEN /\ pc'[t] = "locking" /\ ~absent'[t]
                       /\ req'[t].b = hback[h] /\ req'[t].k \in AreaSlots(a)
                       /\ UNCHANGED <<content, locked, held>>
                  ELSE /\ pc'[t] = "idle" /\ absent'[t]
                       /\ UNCHANGED <<content, locked, held, req>>]_vars
    /\ [][\A t \in Threads :
            (pc[t] = "locking" /\ pc'[t] = "idle") =>
              req[t] \in held'[t] /\ ~absent'[t]]_vars

\* A thread got None from Inventory::item while every slot of the inventory was
\* locked, two of them by the other thread.
C3_Witness ==
    \E t \in Threads, u \in Threads :
      /\ t # u
      /\ absent[t] /\ pc[t] = "idle"
      /\ Cardinality(held[u]) >= 2
      /\ \A k \in FlatSlots : locked[1][k]

\* The content that Inventory::item(area, idx) of backing b leads to.
ContentAt(b, area, idx) == content[b][Unwrap(Resolve(area, idx))]

ValidSlots == {ai \in Areas \X Indexes : ValidIndex(ai[1], ai[2])}

\* C6: slot isolation. Distinct valid (area, index) pairs resolve to distinct
\* slots, and a write through the guard of (A, i) leaves the content of every
\* other (area, index) of the inventory, and of every other inventory, unchanged.
C6_SlotIsolation ==
    /\ [](\A p \in ValidSlots, q \in ValidSlots :
            p # q => Resolve(p[1], p[2]) # Resolve(q[1], q[2]))
    /\ [][content' # content =>
            \E t \in Threads : \E g \in held[t] :
              \A b \in Backings, q \in ValidSlots :
                <<b, q[1], q[2]>> # <<g.b, g.a, g.i>> =>
                  ContentAt(b, q[1], q[2])' = ContentAt(b, q[1], q[2])]_vars

\* Slot 0 of "Hotbar" has been filled through its guard, which is still alive,
\* and both slots of "Storage" are still empty.
C6_Witness ==
    /\ \E t \in Threads : \E g \in held[t] : g.a = "Hotbar" /\ g.i = 0 /\ g.b = 1
    /\ ContentAt(1, "Hotbar", 0) # None
    /\ ContentAt(1, "Storage", 0) = None
    /\ ContentAt(1, "Storage", 1) = None

\* C7: concurrent disjoint-slot access. A thread inside Inventory::item is kept
\* waiting only by a guard that is alive on the very slot it asked for: guards
\* of other slots, whoever holds them, do not delay it.
C7_DisjointSlotsDoNotBlock ==
    \A t \in Threads :
      (pc[t] = "locking" /\ GuardsOn(req[t].b, req[t].k) = {}) =>
        CanLock(req[t].b, req[t].k)

\* Two threads hold guards of two distinct slots of the same inventory at once,
\* and both have written through them.
C7_Witness ==
    \E t \in Threads, u \in Threads :
      /\ t # u
      /\ \E g \in held[t], f \in held[u] :
           /\ g.b = f.b /\ g.k # f.k
           /\ content[g.b][g.k] # None /\ content[f.b][f.k] # None

\* C8: blocking acquisition. A thread inside Inventory::item either stays there,
\* its request unchanged, or returns with the guard of the slot it asked for,
\* in a step before which no guard of that slot was alive: no step takes it out
\* of the call without the lock. And if the slot is free of guards again and
\* again (every holder releases), the waiting thread leaves the call.
C8_BlockingAcquisition ==
    /\ [][\A t \in Threads :
            pc[t] = "locking" =>
              \/ pc'[t] = "locking" /\ req'[t] = req[t]
              \/ /\ pc'[t] = "idle"
                 /\ GuardsOn(req[t].b, req[t].k) = {}
                 /\ req[t] \in held'[t]
                 /\ ~absent'[t]]_vars
    /\ \A t \in Threads, k \in FlatSlots :
         ([]<>(GuardsOn(hback[1], k) = {})) =>
           (Waits(t, hback[1], k) ~> ~Waits(t, hback[1], k))

\* A thread that holds no guard waits inside Inventory::item for a slot whose
\* guard another thread holds, and that thread is free to release it.
C8_Witness ==
    \E t \in Threads, u \in Threads :
      /\ t # u
      /\ pc[t] = "locking" /\ held[t] = {}
      /\ pc[u] = "idle"
      /\ \E g \in held[u] : g.b = req[t].b /\ g.k = req[t].k

(***************************************************************************)
(* Properties of handles (checked under HandleSpec)                        *)
(***************************************************************************)
LiveHandles == {h \in Handles : Live(h)}

\* What the next guard acquired for (area, idx) through handle h observes.
Observed(h, area, idx) == ContentAt(hback[h], area, idx)

\* C4: handle aliasing. Handles derived from one another never differ on what
\* a slot holds; a write through a guard is what every handle of that derivation
\* observes for the slot; and what a handle observes for a slot changes only
\* while a guard of that slot, got through a handle of the same derivation, is
\* alive, so that the content at a release is what the next guard sees.
C4_HandleAliasing ==
    /\ [](\A h1 \in LiveHandles, h2 \in LiveHandles :
            origin[h1] = origin[h2] =>
              \A q \in ValidSlots : Observed(h1, q[1], q[2]) = Observed(h2, q[1], q[2]))
    /\ [][content' # content =>
            \A t \in Threads :
              \A g \in held[t], v \in SlotValues :
                Write(t, g, v) =>
                  \A h \in LiveHandles : origin[h] = g.o => Observed(h, g.a, g.i)' = v]_vars
    /\ [][(content' # content \/ hback' # hback) =>
            \A h \in LiveHandles, q \in ValidSlots :
              Observed(h, q[1], q[2])' # Observed(h, q[1], q[2]) =>
                \E t \in Threads : \E g \in held[t] :
                  g.o = origin[h] /\ g.a = q[1] /\ g.i = q[2] /\ g \in held'[t]]_vars

\* The thread holds the guard of a slot, got through one handle, and sees the
\* stack that the last write, made through a guard got through another handle
\* of the same inventory, left in that slot.
C4_Witness ==
    \E g \in held[1] :
      /\ lastWrite.b = g.b /\ lastWrite.k = g.k
      /\ lastWrite.h # g.h /\ lastWrite.o = g.o
      /\ content[g.b][g.k] # None

\* C5: ptr_eq(a, b) is true exactly when a and b derive from the same
\* construction, whatever the slots hold and whichever are locked, and a call of
\* it changes no slot, lock or guard.
C5_PtrEqIsIdentity ==
    /\ [](\A h1 \in LiveHandles, h2 \in LiveHandles :
            ptr_eq(h1, h2) <=> origin[h1] = origin[h2])
    /\ [][\A t \in Threads, h1 \in Handles, h2 \in Handles :
            (eqRet' # eqRet /\ PtrEqCall(t, h1, h2)) =>
              /\ eqRet' = "true" <=> origin[h1] = origin[h2]
              /\ UNCHANGED <<content, locked, held, pc, req, hback>>]_vars

\* ptr_eq has returned false for two handles of separately constructed
\* inventories whose slots hold equal content, not all empty, one slot locked.
C5_Witness ==
    /\ eqRet = "false"
    /\ held[1] # {}
    /\ \E h1 \in LiveHandles, h2 \in LiveHandles :
         /\ origin[h1] # origin[h2]
         /\ content[hback[h1]] = content[hback[h2]]
         /\ \E k \in FlatSlots : content[hback[h1]][k] # None

\* C14: damage does not destroy the stack. A damage call on the stack in a
\* slot, one that returns true included, leaves the slot occupied by a stack of
\* the same item and count; and a slot that was occupied becomes empty only by
\* a caller storing None through the guard, never by a method of ItemStack, a
\* count of 0 included.
C14_DamageKeepsTheStack ==
    /\ [][\A t \in Threads : \A g \in held[t] : \A amount \in U32 :
            StackCall(t, g, "damage", amount, "Stone") =>
              /\ IsSome(content'[g.b][g.k])
              /\ Unwrap(content'[g.b][g.k]).item = Unwrap(content[g.b][g.k]).item
              /\ Unwrap(content'[g.b][g.k]).count = Unwrap(content[g.b][g.k]).count]_vars
    /\ [][\A b \in Backings, k \in FlatSlots :
            (IsSome(content[b][k]) /\ content'[b][k] = None) =>
              \E t \in Threads : \E g \in held[t] :
                g.b = b /\ g.k = k /\ Write(t, g, None)]_vars

\* The hotbar slot holds a stack that damage calls have broken (its damage is at
\* the durability) and whose count remove has brought to 0; the caller only ever
\* stores stacks of count 1 and damage 0.
C14_Witness ==
    \E g \in held[1] :
      /\ g.a = "Hotbar"
      /\ content[g.b][g.k] =
           Some([item |-> "WoodenSword", count |-> 0,
                 damage |-> Some(Unwrap(durability("WoodenSword")))])

\* Thread t is inside Mutex::lock of a slot of which it keeps a guard alive.
SelfBlocked(t) ==
    /\ pc[t] = "locking"
    /\ \E g \in held[t] : g.b = req[t].b /\ g.k = req[t].k

\* C15: a thread that calls Inventory::item for a slot whose guard it holds,
\* through whatever handle of the backing, never returns from the call: the
\* mutex cannot be locked, no absent result is produced, and every step leaves
\* the thread in the same call with the same guards.
C15_SelfDeadlock ==
    /\ [](\A t \in Threads :
            SelfBlocked(t) => (~CanLock(req[t].b, req[t].k) /\ ~absent[t]))
    /\ [][\A t \in Threads :
            SelfBlocked(t) =>
              /\ SelfBlocked(t)'
              /\ req'[t] = req[t]
              /\ held'[t] = held[t]
              /\ absent'[t] = absent[t]]_vars

\* Thread 1 holds the guard of a slot that it got through one handle and is
\* inside a second call for the same slot through another handle.
C15_Witness ==
    /\ SelfBlocked(1)
    /\ \E g \in held[1] : g.b = req[1].b /\ g.k = req[1].k /\ g.h # req[1].h

\* C16: within one slot the last writer wins. At every moment the slot holds
\* what the latest store through one of its guards left (the initial content if
\* there was none); a guard is acquired only when no other guard of the slot is
\* alive, so after the preceding holder's release, and acquiring it leaves the
\* content as it is: the acquirer sees what the preceding holder left, whatever
\* the threads and handles of the two.
C16_LastWriterWins ==
    /\ [](\A b \in Backings, k \in FlatSlots : content[b][k] = left[b][k])
    /\ [][\A t \in Threads :
            (pc[t] = "locking" /\ pc'[t] = "idle") =>
              /\ GuardsOn(req[t].b, req[t].k) = {}
              /\ content'[req[t].b][req[t].k] = left[req[t].b][req[t].k]
              /\ \E g \in held'[t] : g.b = req[t].b /\ g.k = req[t].k]_vars

\* Thread 2 has just acquired, through its own handle, the guard of a slot in
\* which thread 1 stored a stack through another handle and which it released
\* afterwards: the slot holds that stack.
C16_Witness ==
    \E g \in held[2] :
      /\ held[1] = {}
      /\ lastWrite.b = g.b /\ lastWrite.k = g.k /\ lastWrite.h # g.h
      /\ content[g.b][g.k] = Some(new("Stone", 1))
      /\ content[g.b][g.k] = left[g.b][g.k]

\* C17: a backing lives as long as a handle to it exists. The strong count of a
\* constructed backing is the number of its handles, and the backing is torn
\* down exactly when it has none; every guard and every call in progress is on
\* a backing that has not been torn down. Dropping a handle while others remain
\* changes no slot content, tears nothing down and leaves the other handles on
\* their backings; the drop of the last handle tears the backing down.
\* new_handle adds one handle to the backing, constructs no backing and changes
\* no slot content.
C17_BackingLifetime ==
    /\ [](\A b \in Backings :
            b <= nback =>
              /\ rc[b] = Cardinality(HandlesOf(b))
              /\ b \in freed <=> HandlesOf(b) = {})
    /\ [](\A t \in Threads :
            /\ \A g \in held[t] : g.b \notin freed /\ hback[g.h] = g.b
            /\ pc[t] = "locking" => (req[t].b \notin freed /\ hback[req[t].h] = req[t].b))
    /\ [][\A h \in Handles :
            (Live(h) /\ ~Live(h)') =>
              /\ \A h2 \in Handles \ {h} : hback'[h2] = hback[h2]
              /\ IF HandlesOf(hback[h]) # {h}
                 THEN content' = content /\ freed' = freed
                 ELSE freed' = freed \cup {hback[h]}]_vars
    /\ [][\A h \in Handles :
            NewHandle(h) =>
              /\ nback' = nback
              /\ content' = content
              /\ Cardinality(HandlesOf(hback[h])') = Cardinality(HandlesOf(hback[h])) + 1
              /\ rc'[hback[h]] = rc[hback[h]] + 1
              /\ \A h2 \in Handles : Live(h2) => hback'[h2] = hback[h2]]_vars

\* The handle through which a stack was stored has been dropped; the thread
\* holds the guard of that slot through the remaining handle of the backing,
\* and the stack is still there.
C17_Witness ==
    \E g \in held[1] :
      /\ lastWrite.b = g.b /\ lastWrite.k = g.k /\ lastWrite.h # g.h
      /\ ~Live(lastWrite.h)
      /\ HandlesOf(g.b) = {g.h}
      /\ content[g.b][g.k] = Some(new("Stone", 1))

\* The threads of S are deadlocked: each of them is inside Mutex::lock of a slot
\* that cannot be locked, and whose guards are all held by threads of S.
DeadlockedSet(S) ==
    /\ S # {}
    /\ \A t \in S :
          /\ pc[t] = "locking"
          /\ ~CanLock(req[t].b, req[t].k)
          /\ \A tg \in GuardsOn(req[t].b, req[t].k) : tg[1] \in S

\* The note on Inventory::item: a thread keeps at most one guard alive, and
\* calls Inventory::item only when it holds none.
Disciplined(t) ==
    /\ Cardinality(held[t]) <= 1
    /\ pc[t] = "locking" => held[t] = {}

\* C19: threads that keep at most one guard at a time and release it in the end
\* do not deadlock. Every set of deadlocked threads has a member that waits
\* while it holds a guard, so no state of disciplined threads is a deadlock; and
\* if all threads are disciplined and each of them holds no guard again and
\* again, every Inventory::item call returns. Without the discipline a deadlock
\* is for ever: deadlocked threads stay deadlocked.
C19_DeadlockFreedom ==
    /\ [](\A S \in SUBSET Threads :
            DeadlockedSet(S) => \E t \in S : ~Disciplined(t))
    /\ [][\A S \in SUBSET Threads : DeadlockedSet(S) => DeadlockedSet(S)']_vars
    /\ ((\A u \in Threads : []<>(held[u] = {})) /\ [](\A u \in Threads : Disciplined(u)))
         => \A t \in Threads : (pc[t] = "locking") ~> (pc[t] = "idle")

\* Threads 1 and 2 each hold the guard of one slot and are inside
\* Inventory::item for the slot of the other: both are blocked.
C19_Witness ==
    /\ DeadlockedSet({1, 2})
    /\ \E g1 \in held[1], g2 \in held[2] :
          /\ held[1] = {g1} /\ held[2] = {g2}
          /\ g1.k # g2.k
          /\ Waits(1, g2.b, g2.k)
          /\ Waits(2, g1.b, g1.k)

====
